---------------------------- MODULE Spec2Model ----------------------------
(***************************************************************************)
(* Model of the company-FAQ retrieval-augmented answer pipeline            *)
(* (Cindys_code/agent.py, driven by Cindys_code/main.py).                  *)
(*                                                                         *)
(* The module-level handles of agent.py are the shared state.  One         *)
(* process, Startup, is the FastAPI startup event; the processes in Reqs   *)
(* are calls of run_faq_agent made by the /chat endpoint.  All of them run *)
(* as coroutines of one event loop: a coroutine runs alone from one await  *)
(* that really suspends to the next, so _setup_rag_system (a plain         *)
(* function) and FAQTool._run (a coroutine without an inner await) are     *)
(* never interleaved with another request; the only suspension point of a  *)
(* request is the await of the agent workflow.                             *)
(***************************************************************************)
EXTENDS Naturals, Sequences, FiniteSets, TLC

\* Number of run_faq_agent calls the /chat endpoint makes.
NumReq == 2

\* The startup event of main.py, and the requests in the order of their calls.
Startup == 0
Reqs == 1..NumReq
Procs == {Startup} \cup Reqs

\* Texts of the exceptions a collaborator may raise (str(e)).
Causes == {"x", "y"}

\* Queries the endpoint passes to run_faq_agent.
Queries == {"Q1", "Q2"}

VARIABLES
    embedding_model,    \* _embedding_model: 0 is None, k > 0 the k-th encoder loaded
    chroma_collection,  \* _chroma_collection: 0 is None, k > 0 the k-th collection opened
    llm,                \* _llm: 0 is None, k > 0 the k-th ChatModel built
    faq_tool_instance,  \* _faq_tool_instance: a FAQTool object, id 0 is None
    agent_workflow,     \* _agent_workflow: an AgentWorkflow object, id 0 is None
    calls,              \* how often each constructor / add_agent has been called
    pc,                 \* where each coroutine stands
    steps,              \* the acquisition steps of a process's setup attempt, in order
    setup_ret,          \* what _setup_rag_system gave the process
    printed,            \* the error line the process's setup attempt printed
    exc,                \* text of the exception that left the process's entry point
    user_query,         \* argument of run_faq_agent
    retrieved_info,     \* local of run_faq_agent, gone when the call returns
    prompt_for_agent,   \* local of run_faq_agent, gone when the call returns
    agent_input,        \* inputs of the request's run of _agent_workflow, while it runs
    agent_result,       \* what that run of the workflow gave: a final answer or an error
    ret,                \* the string run_faq_agent returned
    stages              \* the stages the request went through, in order

globals == <<embedding_model, chroma_collection, llm, faq_tool_instance, agent_workflow>>
locals == <<user_query, retrieved_info, prompt_for_agent, agent_input, agent_result, ret, stages>>
vars == <<globals, calls, pc, steps, setup_ret, printed, exc, locals>>

----------------------------------------------------------------------------
\* Objects

NoTool == [id |-> 0, embedding_model |-> 0, chroma_collection |-> 0]
NoWorkflow == [id |-> 0, agents |-> <<>>]

FAQToolOfFirstObjects(id, em, cc) == [id |-> id, embedding_model |-> 1, chroma_collection |-> 1]

\* FAQTool.__init__: the tool keeps the encoder and the collection it is given.
FAQTool(id, em, cc) == [id |-> id, embedding_model |-> em, chroma_collection |-> cc]

\* AgentWorkflow(name=...): a workflow without agents.
AgentWorkflow(id) == [id |-> id, agents |-> <<>>]

\* add_agent(name="FAQAgent", tools=[tool], llm=llm)
add_agent(wf, tool, model) ==
    [wf EXCEPT !.agents = Append(@, [name |-> "FAQAgent", tool |-> tool.id, llm |-> model])]

\* Truth value of a handle: None is false, an object is true.
Truthy(h) == h # 0

AllReadyNever == FALSE

\* The test of line 48: all five handles are populated.
AllReady ==
    /\ Truthy(embedding_model)
    /\ Truthy(chroma_collection)
    /\ Truthy(llm)
    /\ Truthy(faq_tool_instance.id)
    /\ Truthy(agent_workflow.id)

----------------------------------------------------------------------------
\* Scheduling

\* A coroutine is between two suspension points: it holds the event loop.
Running(q) == pc[q] \notin {"init", "awaiting", "done", "raised"}

\* The event loop runs one coroutine at a time.
CanRun(p) == \A q \in Procs \ {p} : ~Running(q)

\* uvicorn serves requests once the startup event has returned; a startup
\* event that raises ends the application.
Serving == pc[Startup] = "done"

\* No outcome yet.
NoResult == [kind |-> "none", text |-> ""]

\* The module as imported: no handle set, nothing called.
PipelineInit ==
    /\ embedding_model = 0
    /\ chroma_collection = 0
    /\ llm = 0
    /\ faq_tool_instance = NoTool
    /\ agent_workflow = NoWorkflow
    /\ calls = [embed |-> 0, chroma |-> 0, llm |-> 0, tool |-> 0, workflow |-> 0, add_agent |-> 0]
    /\ pc = [p \in Procs |-> "init"]
    /\ steps = [p \in Procs |-> <<>>]
    /\ setup_ret = [p \in Procs |-> "none"]
    /\ printed = [p \in Procs |-> ""]
    /\ exc = [p \in Procs |-> ""]
    /\ user_query = [p \in Reqs |-> ""]
    /\ retrieved_info = [p \in Reqs |-> ""]
    /\ prompt_for_agent = [p \in Reqs |-> ""]
    /\ agent_input = [p \in Reqs |-> <<>>]
    /\ agent_result = [p \in Reqs |-> NoResult]
    /\ ret = [p \in Reqs |-> ""]
    /\ stages = [p \in Reqs |-> <<>>]


----------------------------------------------------------------------------
\* _setup_rag_system, as called by startup_event and by run_faq_agent

InitFailureMessage == "Backend RAG system failed to initialize. Please check server logs."

InitFailedIgnored(ok) == FALSE

\* The test of line 209: `if not _setup_rag_system()`.
InitFailed(ok) == ~ok

\* _setup_rag_system returns `ok` to its caller, which goes on in the same
\* synchronous stretch: startup_event prints and returns; run_faq_agent
\* returns the fixed message when the setup failed and goes on to the
\* retrieval otherwise.
SetupReturns(p, ok) ==
    /\ setup_ret' = [setup_ret EXCEPT ![p] = IF ok THEN "True" ELSE "False"]
    /\ exc' = exc
    /\ IF p = Startup
       THEN /\ pc' = [pc EXCEPT ![p] = "done"]
            /\ UNCHANGED <<ret, stages>>
       ELSE IF InitFailed(ok)
       THEN /\ pc' = [pc EXCEPT ![p] = "done"]
            /\ ret' = [ret EXCEPT ![p] = InitFailureMessage]
            /\ stages' = [stages EXCEPT ![p] = Append(@, "FAILED_RETURN")]
       ELSE /\ pc' = [pc EXCEPT ![p] = "retrieve"]
            /\ UNCHANGED <<ret, stages>>

\* An exception with text c leaves _setup_rag_system; neither startup_event
\* nor run_faq_agent catches it, so it leaves the process's entry point.
SetupRaises(p, c) ==
    /\ setup_ret' = [setup_ret EXCEPT ![p] = "raised"]
    /\ exc' = [exc EXCEPT ![p] = c]
    /\ pc' = [pc EXCEPT ![p] = "raised"]
    /\ UNCHANGED <<ret, stages>>

\* The setup goes on to its next statement.
GoesOn(p, next) ==
    /\ pc' = [pc EXCEPT ![p] = next]
    /\ UNCHANGED <<setup_ret, exc, ret, stages>>

\* The process's attempt has executed `step`, which succeeded or not.
Logged(p, step, ok) ==
    steps' = [steps EXCEPT ![p] = Append(@, [step |-> step, ok |-> ok])]

\* startup_event (main.py): calls _setup_rag_system.
StartupEvent ==
    /\ pc[Startup] = "init"
    /\ CanRun(Startup)
    /\ pc' = [pc EXCEPT ![Startup] = "check"]
    /\ UNCHANGED <<globals, calls, steps, setup_ret, printed, exc, locals>>

\* chat_endpoint awaits run_faq_agent(user_query), which calls _setup_rag_system.
\* Request p is the p-th call the endpoint makes.
Call(p, q) ==
    /\ Serving
    /\ pc[p] = "init"
    /\ \A r \in Reqs : r < p => pc[r] # "init"
    /\ CanRun(p)
    /\ pc' = [pc EXCEPT ![p] = "check"]
    /\ user_query' = [user_query EXCEPT ![p] = q]
    /\ stages' = [stages EXCEPT ![p] = <<"START", "ENSURE_READY">>]
    /\ UNCHANGED <<globals, calls, steps, setup_ret, printed, exc,
                   retrieved_info, prompt_for_agent, agent_input, agent_result, ret>>

\* Lines 47-52: already set up, or start the acquisition.
SetupCheck(p) ==
    /\ pc[p] = "check"
    /\ CanRun(p)
    /\ IF AllReady THEN SetupReturns(p, TRUE) ELSE GoesOn(p, "embed")
    /\ UNCHANGED <<globals, calls, steps, printed,
                   user_query, retrieved_info, prompt_for_agent, agent_input, agent_result>>

EmbedExceptFallsThrough(p, c) ==
    /\ printed' = [printed EXCEPT ![p] = "Error loading embedding model: " \o c]
    /\ GoesOn(p, "chroma")

EmbedExceptReraises(p, c) ==
    /\ printed' = [printed EXCEPT ![p] = "Error loading embedding model: " \o c]
    /\ SetupRaises(p, c)

\* Lines 58-60: the except clause of step 1.
EmbedExcept(p, c) ==
    /\ printed' = [printed EXCEPT ![p] = "Error loading embedding model: " \o c]
    /\ SetupReturns(p, FALSE)

\* Lines 55-60, step 1: SentenceTransformer(EMBEDDING_MODEL_NAME).
LoadEmbedding(p) ==
    /\ pc[p] = "embed"
    /\ CanRun(p)
    /\ calls' = [calls EXCEPT !.embed = @ + 1]
    /\ \/ /\ embedding_model' = calls.embed + 1
          /\ Logged(p, "embed", TRUE)
          /\ GoesOn(p, "chroma")
          /\ UNCHANGED printed
       \/ \E c \in Causes :
             /\ Logged(p, "embed", FALSE)
             /\ EmbedExcept(p, c)
             /\ UNCHANGED embedding_model
    /\ UNCHANGED <<chroma_collection, llm, faq_tool_instance, agent_workflow,
                   user_query, retrieved_info, prompt_for_agent, agent_input, agent_result>>

\* Lines 67-69: the except clause of step 2.
ChromaExcept(p, c) ==
    /\ printed' = [printed EXCEPT ![p] = "Error connecting to ChromaDB: " \o c]
    /\ SetupReturns(p, FALSE)

\* Lines 63-69, step 2: PersistentClient(...).get_or_create_collection(...).
OpenChroma(p) ==
    /\ pc[p] = "chroma"
    /\ CanRun(p)
    /\ calls' = [calls EXCEPT !.chroma = @ + 1]
    /\ \/ /\ chroma_collection' = calls.chroma + 1
          /\ Logged(p, "chroma", TRUE)
          /\ GoesOn(p, "llm")
          /\ UNCHANGED printed
       \/ \E c \in Causes :
             /\ Logged(p, "chroma", FALSE)
             /\ ChromaExcept(p, c)
             /\ UNCHANGED chroma_collection
    /\ UNCHANGED <<embedding_model, llm, faq_tool_instance, agent_workflow,
                   user_query, retrieved_info, prompt_for_agent, agent_input, agent_result>>

\* Lines 75-77: the except clause of step 3.
LLMExcept(p, c) ==
    /\ printed' = [printed EXCEPT ![p] = "Error initializing LLM: " \o c]
    /\ SetupReturns(p, FALSE)

\* Lines 72-77, step 3: ChatModel.from_name(...).
InitLLM(p) ==
    /\ pc[p] = "llm"
    /\ CanRun(p)
    /\ calls' = [calls EXCEPT !.llm = @ + 1]
    /\ \/ /\ llm' = calls.llm + 1
          /\ Logged(p, "llm", TRUE)
          /\ GoesOn(p, "tool")
          /\ UNCHANGED printed
       \/ \E c \in Causes :
             /\ Logged(p, "llm", FALSE)
             /\ LLMExcept(p, c)
             /\ UNCHANGED llm
    /\ UNCHANGED <<embedding_model, chroma_collection, faq_tool_instance, agent_workflow,
                   user_query, retrieved_info, prompt_for_agent, agent_input, agent_result>>

\* Lines 79-81, step 4: FAQTool(embedding_model=..., chroma_collection=...),
\* outside any try.
CreateTool(p) ==
    /\ pc[p] = "tool"
    /\ CanRun(p)
    /\ calls' = [calls EXCEPT !.tool = @ + 1]
    /\ \/ /\ faq_tool_instance' = FAQTool(calls.tool + 1, embedding_model, chroma_collection)
          /\ Logged(p, "tool", TRUE)
          /\ GoesOn(p, "workflow")
       \/ \E c \in Causes :
             /\ Logged(p, "tool", FALSE)
             /\ SetupRaises(p, c)
             /\ UNCHANGED faq_tool_instance
    /\ UNCHANGED <<embedding_model, chroma_collection, llm, agent_workflow, printed,
                   user_query, retrieved_info, prompt_for_agent, agent_input, agent_result>>

\* Line 84, step 5: AgentWorkflow(name="Company FAQ Assistant"), outside any try.
CreateWorkflow(p) ==
    /\ pc[p] = "workflow"
    /\ CanRun(p)
    /\ calls' = [calls EXCEPT !.workflow = @ + 1]
    /\ \/ /\ agent_workflow' = AgentWorkflow(calls.workflow + 1)
          /\ Logged(p, "workflow", TRUE)
          /\ GoesOn(p, "add_agent")
       \/ \E c \in Causes :
             /\ Logged(p, "workflow", FALSE)
             /\ SetupRaises(p, c)
             /\ UNCHANGED agent_workflow
    /\ UNCHANGED <<embedding_model, chroma_collection, llm, faq_tool_instance, printed,
                   user_query, retrieved_info, prompt_for_agent, agent_input, agent_result>>

\* Lines 85-98: _agent_workflow.add_agent(...), outside any try, then return True.
AddAgent(p) ==
    /\ pc[p] = "add_agent"
    /\ CanRun(p)
    /\ calls' = [calls EXCEPT !.add_agent = @ + 1]
    /\ \/ /\ agent_workflow' = add_agent(agent_workflow, faq_tool_instance, llm)
          /\ Logged(p, "add_agent", TRUE)
          /\ SetupReturns(p, TRUE)
       \/ \E c \in Causes :
             /\ Logged(p, "add_agent", FALSE)
             /\ SetupRaises(p, c)
             /\ UNCHANGED agent_workflow
    /\ UNCHANGED <<embedding_model, chroma_collection, llm, faq_tool_instance, printed,
                   user_query, retrieved_info, prompt_for_agent, agent_input, agent_result>>

----------------------------------------------------------------------------
\* FAQTool._run

TopKOneMore == 3 + 1

\* n_results of the index query (line 168).
TopK == 3

\* What chroma_collection.query may return for the documents and metadatas of
\* the one query embedding: at most TopK neighbours; a metadata entry holds a
\* question and an answer, each present (<<text>>) or absent (<<>>).
IndexResults ==
    { [documents |-> <<>>, metadatas |-> <<>>],
      [documents |-> <<"D1">>,
       metadatas |-> <<[question |-> <<"q1">>, answer |-> <<"a1">>]>>],
      [documents |-> <<"D1", "D2">>,
       metadatas |-> <<[question |-> <<>>, answer |-> <<>>],
                       [question |-> <<"q2">>, answer |-> <<"a2">>]>>] }

GetWithoutDefault(entry, default) == IF entry = <<>> THEN "N/A" ELSE entry[1]

\* dict.get(key, default) on an entry of the metadata.
Get(entry, default) == IF entry = <<>> THEN default ELSE entry[1]

\* Lines 179-183: the block of neighbour i.
Block(results, i) ==
    "Question: " \o Get(results.metadatas[i].question, "N/A")
        \o "\nAnswer: " \o Get(results.metadatas[i].answer, results.documents[i])

\* Lines 175-183: retrieved_contexts.
RetrievedContexts(results) == [i \in 1..Len(results.documents) |-> Block(results, i)]

\* "\n\n".join(blocks)
RECURSIVE Join(_)
Join(blocks) ==
    IF Len(blocks) = 0 THEN ""
    ELSE IF Len(blocks) = 1 THEN blocks[1]
    ELSE blocks[1] \o "\n\n" \o Join(Tail(blocks))

ContextStringWithoutSentinel(results) == Join(RetrievedContexts(results))

\* Lines 185-191: the sentinel, or the joined blocks.
ContextString(results) ==
    IF RetrievedContexts(results) = <<>>
    THEN "No relevant information found in the FAQs."
    ELSE Join(RetrievedContexts(results))

\* What _run(query) may return: the diagnostic of a failed encode (line 162),
\* the diagnostic of a failed index query (line 172), or the context built
\* from the index's result.
RunResults ==
    {"Error processing query for FAQ lookup: " \o c : c \in Causes}
        \cup {"Error retrieving information from FAQs: " \o c : c \in Causes}
        \cup {ContextString(r) : r \in IndexResults}

----------------------------------------------------------------------------
\* run_faq_agent, after the setup

\* Line 218: the prompt template.
PromptOneNewline(info, query) ==
    "Retrieved Company FAQ Information:\n" \o info \o "\nUser Question: " \o query

Prompt(info, query) ==
    "Retrieved Company FAQ Information:\n" \o info \o "\n\nUser Question: " \o query

\* final_answer texts the agent workflow may produce.
Answers == {"A1", "A2"}

AgentErrorMessageNoCause(c) == "An error occurred while processing your request."

\* Line 232: the string returned when the workflow raised.
AgentErrorMessage(c) == "An error occurred while processing your request: " \o c

\* The request enters a stage.
Enters(p, stage) == stages' = [stages EXCEPT ![p] = Append(@, stage)]

\* run_faq_agent returns after the workflow's run: its locals and the run's
\* inputs are gone.
FrameDiscarded(p) ==
    /\ retrieved_info' = [retrieved_info EXCEPT ![p] = ""]
    /\ prompt_for_agent' = [prompt_for_agent EXCEPT ![p] = ""]
    /\ agent_input' = [agent_input EXCEPT ![p] = <<>>]

RetrieveReturnsFailure(p) ==
    /\ pc[p] = "retrieve"
    /\ CanRun(p)
    /\ \E info \in RunResults :
          /\ retrieved_info' = [retrieved_info EXCEPT ![p] = info]
          /\ IF info \in {ContextString(r) : r \in IndexResults} \ {ContextString([documents |-> <<>>, metadatas |-> <<>>])}
             THEN pc' = [pc EXCEPT ![p] = "prompt"] /\ ret' = ret
             ELSE pc' = [pc EXCEPT ![p] = "done"] /\ ret' = [ret EXCEPT ![p] = info]
    /\ Enters(p, "RETRIEVE")
    /\ UNCHANGED <<globals, calls, steps, setup_ret, printed, exc,
                   user_query, prompt_for_agent, agent_input, agent_result>>

\* Lines 213-214: retrieved_info = await _faq_tool_instance._run(user_query).
Retrieve(p) ==
    /\ pc[p] = "retrieve"
    /\ CanRun(p)
    /\ \E info \in RunResults :
          retrieved_info' = [retrieved_info EXCEPT ![p] = info]
    /\ Enters(p, "RETRIEVE")
    /\ pc' = [pc EXCEPT ![p] = "prompt"]
    /\ UNCHANGED <<globals, calls, steps, setup_ret, printed, exc,
                   user_query, prompt_for_agent, agent_input, agent_result, ret>>

\* Line 218: prompt_for_agent.
BuildPrompt(p) ==
    /\ pc[p] = "prompt"
    /\ CanRun(p)
    /\ prompt_for_agent' = [prompt_for_agent EXCEPT ![p] = Prompt(retrieved_info[p], user_query[p])]
    /\ Enters(p, "PROMPT_BUILD")
    /\ pc' = [pc EXCEPT ![p] = "invoke"]
    /\ UNCHANGED <<globals, calls, steps, setup_ret, printed, exc,
                   user_query, retrieved_info, agent_input, agent_result, ret>>

\* Lines 221-228: _agent_workflow.run(inputs=[AgentWorkflowInput(prompt=...)]);
\* the await suspends the request.
InvokeAgent(p) ==
    /\ pc[p] = "invoke"
    /\ CanRun(p)
    /\ agent_input' = [agent_input EXCEPT ![p] = Append(@, prompt_for_agent[p])]
    /\ Enters(p, "AGENT_INVOKE")
    /\ pc' = [pc EXCEPT ![p] = "awaiting"]
    /\ UNCHANGED <<globals, calls, steps, setup_ret, printed, exc,
                   user_query, retrieved_info, prompt_for_agent, agent_result, ret>>

AgentExceptRetries(p, c) ==
    /\ pc' = [pc EXCEPT ![p] = "invoke"]
    /\ UNCHANGED <<ret, stages, globals>>

AgentExceptDropsWorkflow(p, c) ==
    /\ ret' = [ret EXCEPT ![p] = AgentErrorMessage(c)]
    /\ Enters(p, "FAILED_RETURN")
    /\ pc' = [pc EXCEPT ![p] = "done"]
    /\ agent_workflow' = NoWorkflow
    /\ UNCHANGED <<embedding_model, chroma_collection, llm, faq_tool_instance>>

\* Lines 230-232: the except clause around the workflow run.
AgentExcept(p, c) ==
    /\ ret' = [ret EXCEPT ![p] = AgentErrorMessage(c)]
    /\ Enters(p, "FAILED_RETURN")
    /\ pc' = [pc EXCEPT ![p] = "done"]
    /\ UNCHANGED globals

AgentReturnsToAll(p) ==
    /\ pc[p] = "awaiting"
    /\ CanRun(p)
    /\ \E a \in Answers :
          /\ agent_result' = [agent_result EXCEPT ![p] = [kind |-> "answer", text |-> a]]
          /\ ret' = [q \in Reqs |-> a]
    /\ Enters(p, "RETURN")
    /\ pc' = [pc EXCEPT ![p] = "done"]
    /\ FrameDiscarded(p)
    /\ UNCHANGED <<globals, calls, steps, setup_ret, printed, exc, user_query>>

\* Line 229: the workflow has answered; return response.result.final_answer.
AgentReturns(p) ==
    /\ pc[p] = "awaiting"
    /\ CanRun(p)
    /\ \E a \in Answers :
          /\ agent_result' = [agent_result EXCEPT ![p] = [kind |-> "answer", text |-> a]]
          /\ ret' = [ret EXCEPT ![p] = a]
    /\ Enters(p, "RETURN")
    /\ pc' = [pc EXCEPT ![p] = "done"]
    /\ FrameDiscarded(p)
    /\ UNCHANGED <<globals, calls, steps, setup_ret, printed, exc, user_query>>

\* Lines 230-232: the workflow has raised an Exception with text c.
AgentRaises(p) ==
    /\ pc[p] = "awaiting"
    /\ CanRun(p)
    /\ \E c \in Causes :
          /\ agent_result' = [agent_result EXCEPT ![p] = [kind |-> "error", text |-> c]]
          /\ AgentExcept(p, c)
    /\ FrameDiscarded(p)
    /\ UNCHANGED <<calls, steps, setup_ret, printed, exc, user_query>>

----------------------------------------------------------------------------
\* One call of FAQTool._run, step by step, against a collection of FAQ entries

\* Largest number of entries in the collection.
MaxCorpus == 4

VARIABLES
    t_pc,         \* where the call stands: "off" when no call is looked at
    t_query,      \* the argument query
    t_corpus,     \* the entries of the collection, nearest to the query first
    t_enc,        \* what embedding_model.encode gave
    t_idx,        \* what chroma_collection.query gave
    t_n_results,  \* the n_results of each index query made, in order
    t_results,    \* the local results
    t_contexts,   \* the local retrieved_contexts
    t_ret         \* the string _run returned

toolvars == <<t_pc, t_query, t_corpus, t_enc, t_idx, t_n_results, t_results, t_contexts, t_ret>>

\* Entries of the collection: a document text and its metadata.
Entries ==
    { [doc |-> "D1", meta |-> [question |-> <<>>, answer |-> <<>>]],
      [doc |-> "D2", meta |-> [question |-> <<"q2">>, answer |-> <<"a2">>]],
      [doc |-> "D3", meta |-> [question |-> <<"q3">>, answer |-> <<>>]],
      [doc |-> "D4", meta |-> [question |-> <<>>, answer |-> <<"a4">>]] }

\* Collections of at most MaxCorpus entries.
Corpora == UNION {[1..n -> Entries] : n \in 0..MaxCorpus}

Min(a, b) == IF a <= b THEN a ELSE b

\* No result of an index query: results is None.
NoResults == [shape |-> "none", documents |-> <<>>, metadatas |-> <<>>]

\* What query(query_embeddings=[e], n_results=n, include=[documents, metadatas])
\* may return on a collection: the n nearest entries, or all of them when there
\* are fewer, as results['documents'][0] and results['metadatas'][0]; or a
\* result without neighbours: none at all, or one without a documents list.
Responses(corpus, n) ==
    { [shape |-> "ok",
       documents |-> [i \in 1..Min(n, Len(corpus)) |-> corpus[i].doc],
       metadatas |-> [i \in 1..Min(n, Len(corpus)) |-> corpus[i].meta]],
      NoResults,
      [shape |-> "nodocs", documents |-> <<>>, metadatas |-> <<>>] }

\* Line 176: the neighbours the loop goes through.
Neighbours(results) ==
    IF results.shape = "ok"
    THEN [documents |-> results.documents, metadatas |-> results.metadatas]
    ELSE [documents |-> <<>>, metadatas |-> <<>>]

\* The pipeline's model does not look inside a call of _run.
ToolOff ==
    /\ t_pc = "off"
    /\ t_query = ""
    /\ t_corpus = <<>>
    /\ t_enc = NoResult
    /\ t_idx = NoResult
    /\ t_n_results = <<>>
    /\ t_results = NoResults
    /\ t_contexts = <<>>
    /\ t_ret = ""

\* _run(query) is called on a tool whose collection holds some entries.
ToolInit ==
    /\ t_pc = "encode"
    /\ t_query \in Queries
    /\ t_corpus \in Corpora
    /\ t_enc = NoResult
    /\ t_idx = NoResult
    /\ t_n_results = <<>>
    /\ t_results = NoResults
    /\ t_contexts = <<>>
    /\ t_ret = ""

EncodeExceptFallsThrough(c) ==
    /\ t_ret' = "Error processing query for FAQ lookup: " \o c
    /\ t_pc' = "query"

\* Lines 161-162: the except clause of the encode.
EncodeExcept(c) ==
    /\ t_ret' = "Error processing query for FAQ lookup: " \o c
    /\ t_pc' = "returned"

\* Lines 159-162: query_embedding = self.embedding_model.encode(query).tolist().
ToolEncode ==
    /\ t_pc = "encode"
    /\ \/ /\ t_enc' = [kind |-> "ok", text |-> ""]
          /\ t_pc' = "query"
          /\ UNCHANGED t_ret
       \/ \E c \in Causes :
             /\ t_enc' = [kind |-> "error", text |-> c]
             /\ EncodeExcept(c)
    /\ UNCHANGED <<t_query, t_corpus, t_idx, t_n_results, t_results, t_contexts>>

\* Lines 171-172: the except clause of the index query.
QueryExcept(c) ==
    /\ t_ret' = "Error retrieving information from FAQs: " \o c
    /\ t_pc' = "returned"

\* Lines 165-172: results = self.chroma_collection.query(..., n_results=3, ...).
ToolQuery ==
    /\ t_pc = "query"
    /\ t_n_results' = Append(t_n_results, TopK)
    /\ \/ \E r \in Responses(t_corpus, TopK) :
             /\ t_idx' = [kind |-> "ok", text |-> ""]
             /\ t_results' = r
             /\ t_pc' = "format"
             /\ UNCHANGED t_ret
       \/ \E c \in Causes :
             /\ t_idx' = [kind |-> "error", text |-> c]
             /\ QueryExcept(c)
             /\ UNCHANGED t_results
    /\ UNCHANGED <<t_query, t_corpus, t_enc, t_contexts>>

\* Lines 174-191: format the neighbours and return the context or the sentinel.
ToolFormat ==
    /\ t_pc = "format"
    /\ t_contexts' = RetrievedContexts(Neighbours(t_results))
    /\ t_ret' = ContextString(Neighbours(t_results))
    /\ t_pc' = "returned"
    /\ UNCHANGED <<t_query, t_corpus, t_enc, t_idx, t_n_results, t_results>>

----------------------------------------------------------------------------

----------------------------------------------------------------------------
\* beeai_python_demo.py: calls of process_message on one GeminiFlashAgent

\* Number of process_message calls.
NumMsg == 2

Msgs == 1..NumMsg

VARIABLES
    request_count,          \* self.request_count
    conversation_history,   \* self.conversation_history
    tracer,                 \* self.tracer: "none", or a tracer that works ("ok")
                            \* or whose operations may raise ("faulty")
    pm_pc,                  \* where each call of process_message is
    message,                \* its argument
    span,                   \* its span
    pm_ret,                 \* what it returned
    pm_exc                  \* the exception that left it

demovars == <<request_count, conversation_history, tracer, pm_pc, message, span,
              pm_ret, pm_exc>>

\* Arguments of process_message: two texts, a bytes object and None. The
\* annotation asks for str; the other two are what makes the code's except
\* clause and line 132 raise.
Messages ==
    { [type |-> "str", text |-> "hello"],
      [type |-> "str", text |-> "ping"],
      [type |-> "bytes", text |-> "hi"],
      [type |-> "NoneType", text |-> ""] }

NoMessage == [type |-> "none", text |-> ""]

\* kw in text.lower(), for the texts of Messages.
Contains(text, kw) == <<text, kw>> \in {<<"hello", "hello">>}

\* Lines 206-215: the reply to a str message.
Reply(text) ==
    IF Contains(text, "hello")
    THEN "Hello! I'm your Gemini Flash 1.5 powered AI assistant. How can I help you today?"
    ELSE IF Contains(text, "help")
    THEN "I'm here to help! I can answer questions, provide information, and engage in conversations. What would you like to know?"
    ELSE IF Contains(text, "beeai")
    THEN "BeeAI is a powerful framework for building AI agents with built-in observability. It supports OpenTelemetry for monitoring and debugging."
    ELSE IF Contains(text, "observability")
    THEN "Observability in BeeAI includes logging, telemetry collection, and integration with tools like Splunk SignalFX for trace visualization."
    ELSE "Thanks for your message: '" \o text
            \o "'. I'm processing this with Gemini Flash 1.5. How can I assist you further?"

\* Line 206 on a message that is not a str: bytes.lower() is bytes, and
\* "hello" in it raises TypeError.
LowerError == [type |-> "TypeError", text |-> "a bytes-like object is required, not 'str'"]

\* Line 132 on None: message[:50] raises TypeError.
SliceError == [type |-> "TypeError", text |-> "'NoneType' object is not subscriptable"]

\* What an operation of a faulty tracer raises.
TracerError == [type |-> "RuntimeError", text |-> "t"]

NoError == [type |-> "", text |-> ""]

\* Lines 184 and 197: the fallback response.
Apology(c) == "I apologize, but I encountered an error: " \o c

\* Keys of the span's attributes.
AttrKeys ==
    {"service.name", "agent.name", "request.id", "llm.prompt", "llm.model",
     "llm.response", "llm.status", "llm.response_length",
     "error.message", "error.type"}

NoAttrs == [k \in AttrKeys |-> <<>>]

NoSpan == [state |-> "none", attrs |-> NoAttrs]

\* span.set_attribute for the first n of a sequence of <<key, value>>.
RECURSIVE SetAttributes(_, _, _)
SetAttributes(attrs, kvs, n) ==
    IF n = 0 THEN attrs
    ELSE SetAttributes([attrs EXCEPT ![kvs[1][1]] = <<kvs[1][2]>>], Tail(kvs), n - 1)

\* Lines 145-149.
StartAttributes(id, msg) ==
    << <<"service.name", "beeai-gemini-agent">>,
       <<"agent.name", "GeminiFlashAgent">>,
       <<"request.id", id>>,
       <<"llm.prompt", msg.text>>,
       <<"llm.model", "gemini-flash-1.5">> >>

SuccessAttributesWithoutLength(response) ==
    << <<"llm.response", response>>,
       <<"llm.status", "success">>,
       <<"llm.status", "success">> >>

\* Lines 164-166.
SuccessAttributes(response) ==
    << <<"llm.response", response>>,
       <<"llm.status", "success">>,
       <<"llm.response_length", Len(response)>> >>

\* Lines 179-181.
ErrorAttributes(e) ==
    << <<"llm.status", "error">>,
       <<"error.message", e.text>>,
       <<"error.type", e.type>> >>

\* How many of k set_attribute calls in a row go through: all of them, or,
\* with a faulty tracer, any number, the next one raising.
GoThrough(k) == IF tracer = "faulty" THEN 0..k ELSE {k}

\* Lines 135-140: the entry appended for a call; a key not set yet is <<>>.
Entry(id, msg) ==
    [request_id |-> id, user_message |-> msg, status |-> "",
     agent_response |-> <<>>, error |-> <<>>]

\* conversation_history[-1][...] = ... of lines 160-161.
MarkSuccess(h, response) ==
    [h EXCEPT ![Len(h)] = [@ EXCEPT !.agent_response = <<response>>, !.status = "success"]]

\* conversation_history[-1][...] = ... of lines 175-176.
MarkError(h, e) ==
    [h EXCEPT ![Len(h)] = [@ EXCEPT !.status = "error", !.error = <<e.text>>]]

\* history[-5:]
LastFive(h) == SubSeq(h, IF Len(h) > 5 THEN Len(h) - 4 ELSE 1, Len(h))

\* Lines 217-225: get_observability_data().
ObservabilityData ==
    [agent_name |-> "GeminiFlashAgent",
     total_requests |-> request_count,
     conversation_count |-> Len(conversation_history),
     recent_conversations |-> LastFive(conversation_history),
     status |-> "active"]

\* The agent after __init__ (lines 116-123), no call made.
DemoStart ==
    /\ request_count = 0
    /\ conversation_history = <<>>
    /\ pm_pc = [m \in Msgs |-> "idle"]
    /\ message = [m \in Msgs |-> NoMessage]
    /\ span = [m \in Msgs |-> NoSpan]
    /\ pm_ret = [m \in Msgs |-> ""]
    /\ pm_exc = [m \in Msgs |-> NoError]

\* No agent is looked at.
DemoOff == DemoStart /\ tracer = "none"

\* An agent without a tracer (OTEL_AVAILABLE false) or with one.
DemoInit == DemoStart /\ tracer \in {"none", "ok", "faulty"}

\* The call leaves by returning r.
Returns(m, r) ==
    /\ pm_pc' = [pm_pc EXCEPT ![m] = "done"]
    /\ pm_ret' = [pm_ret EXCEPT ![m] = r]
    /\ UNCHANGED pm_exc

\* The call leaves by raising e.
Raises(m, e) ==
    /\ pm_pc' = [pm_pc EXCEPT ![m] = "raised"]
    /\ pm_exc' = [pm_exc EXCEPT ![m] = e]
    /\ UNCHANGED pm_ret

CountRequestNot == request_count' = request_count

\* Line 129.
CountRequest == request_count' = request_count + 1

\* Lines 129-151 (or 129-188 without tracer): process_message up to the
\* await of asyncio.sleep in _generate_response.
ProcessMessage(m, msg) ==
    /\ pm_pc[m] = "idle"
    /\ \A r \in Msgs : r < m => pm_pc[r] # "idle"
    /\ CountRequest
    /\ message' = [message EXCEPT ![m] = msg]
    /\ UNCHANGED tracer
    /\ IF msg.type = "NoneType"
       THEN /\ Raises(m, SliceError)
            /\ UNCHANGED <<conversation_history, span>>
       ELSE /\ conversation_history' = Append(conversation_history, Entry(request_count', msg))
            /\ IF tracer = "none"
               THEN /\ pm_pc' = [pm_pc EXCEPT ![m] = "awaiting"]
                    /\ UNCHANGED <<span, pm_ret, pm_exc>>
               ELSE \/ \E n \in GoThrough(5) :
                          /\ span' = [span EXCEPT ![m] =
                                [state |-> IF n = 5 THEN "open" ELSE "ended",
                                 attrs |-> SetAttributes(NoAttrs, StartAttributes(request_count', msg), n)]]
                          /\ IF n = 5
                             THEN /\ pm_pc' = [pm_pc EXCEPT ![m] = "awaiting"]
                                  /\ UNCHANGED <<pm_ret, pm_exc>>
                             ELSE Raises(m, TracerError)
                    \/ /\ tracer = "faulty"
                       /\ Raises(m, TracerError)
                       /\ UNCHANGED span

\* Lines 170-184 (193-197 without tracer): the except clause, entered with
\* exception e, the history being h and the span's attributes attrs.
Except(m, e, h, attrs) ==
    /\ conversation_history' = MarkError(h, e)
    /\ IF tracer = "none"
       THEN /\ Returns(m, Apology(e.text))
            /\ UNCHANGED span
       ELSE \E n \in GoThrough(3) :
               /\ span' = [span EXCEPT ![m] =
                     [state |-> "ended", attrs |-> SetAttributes(attrs, ErrorAttributes(e), n)]]
               /\ IF n = 3 THEN Returns(m, Apology(e.text)) ELSE Raises(m, TracerError)

\* Lines 154-168 (188-192): _generate_response has returned.
GenerateReturns(m) ==
    /\ pm_pc[m] = "awaiting"
    /\ message[m].type = "str"
    /\ UNCHANGED <<request_count, tracer, message>>
    /\ LET response == Reply(message[m].text)
           h == MarkSuccess(conversation_history, response)
       IN  IF tracer = "none"
           THEN /\ conversation_history' = h
                /\ Returns(m, response)
                /\ UNCHANGED span
           ELSE \E n \in GoThrough(3) :
                   IF n = 3
                   THEN /\ conversation_history' = h
                        /\ span' = [span EXCEPT ![m] =
                              [state |-> "ended",
                               attrs |-> SetAttributes(@.attrs, SuccessAttributes(response), 3)]]
                        /\ Returns(m, response)
                   ELSE Except(m, TracerError, h,
                               SetAttributes(span[m].attrs, SuccessAttributes(response), n))

\* Lines 206 and 170-184 (193-197): _generate_response has raised.
GenerateRaises(m) ==
    /\ pm_pc[m] = "awaiting"
    /\ message[m].type = "bytes"
    /\ UNCHANGED <<request_count, tracer, message>>
    /\ Except(m, LowerError, conversation_history, span[m].attrs)

Next ==
    \/ StartupEvent /\ UNCHANGED <<toolvars, demovars>>
    \/ \E p \in Reqs, q \in Queries : Call(p, q) /\ UNCHANGED <<toolvars, demovars>>
    \/ \E p \in Procs : SetupCheck(p) /\ UNCHANGED <<toolvars, demovars>>
    \/ \E p \in Procs : LoadEmbedding(p) /\ UNCHANGED <<toolvars, demovars>>
    \/ \E p \in Procs : OpenChroma(p) /\ UNCHANGED <<toolvars, demovars>>
    \/ \E p \in Procs : InitLLM(p) /\ UNCHANGED <<toolvars, demovars>>
    \/ \E p \in Procs : CreateTool(p) /\ UNCHANGED <<toolvars, demovars>>
    \/ \E p \in Procs : CreateWorkflow(p) /\ UNCHANGED <<toolvars, demovars>>
    \/ \E p \in Procs : AddAgent(p) /\ UNCHANGED <<toolvars, demovars>>
    \/ \E p \in Reqs : Retrieve(p) /\ UNCHANGED <<toolvars, demovars>>
    \/ \E p \in Reqs : BuildPrompt(p) /\ UNCHANGED <<toolvars, demovars>>
    \/ \E p \in Reqs : InvokeAgent(p) /\ UNCHANGED <<toolvars, demovars>>
    \/ \E p \in Reqs : AgentReturns(p) /\ UNCHANGED <<toolvars, demovars>>
    \/ \E p \in Reqs : AgentRaises(p) /\ UNCHANGED <<toolvars, demovars>>

\* The steps of _run.
NextTool ==
    \/ ToolEncode /\ UNCHANGED <<vars, demovars>>
    \/ ToolQuery /\ UNCHANGED <<vars, demovars>>
    \/ ToolFormat /\ UNCHANGED <<vars, demovars>>

\* Every variable of the module.
allvars == <<vars, toolvars, demovars>>

\* The pipeline at import; no call of _run is looked at step by step.
Init == PipelineInit /\ ToolOff /\ DemoOff

\* One call of _run on its own, the pipeline's variables staying as they are.
InitTool == PipelineInit /\ ToolInit /\ DemoOff

\* The pipeline: the startup event and the requests.
Spec == Init /\ [][Next]_allvars

\* One call of FAQTool._run.
SpecTool == InitTool /\ [][NextTool]_allvars

\* The calls of process_message.
NextDemo ==
    \/ \E m \in Msgs, msg \in Messages : ProcessMessage(m, msg) /\ UNCHANGED <<vars, toolvars>>
    \/ \E m \in Msgs : GenerateReturns(m) /\ UNCHANGED <<vars, toolvars>>
    \/ \E m \in Msgs : GenerateRaises(m) /\ UNCHANGED <<vars, toolvars>>

\* One agent and its calls, the pipeline's variables staying as they are.
InitDemo == PipelineInit /\ ToolOff /\ DemoInit

\* Calls of GeminiFlashAgent.process_message.
SpecDemo == InitDemo /\ [][NextDemo]_allvars

----------------------------------------------------------------------------
\* Properties

\* The process's call of _setup_rag_system ended in failure.
Failed(p) == setup_ret[p] \in {"False", "raised"}

\* Some call of _setup_rag_system has returned True.
Succeeded == \E p \in Procs : setup_ret[p] = "True"

\* How often x occurs in seq.
Count(seq, x) == Cardinality({i \in DOMAIN seq : seq[i] = x})

\* seq is an initial part of full.
IsPrefix(seq, full) == Len(seq) <= Len(full) /\ \A i \in DOMAIN seq : seq[i] = full[i]

\* The steps of an attempt, by name.
StepNames(p) == [i \in DOMAIN steps[p] |-> steps[p][i].step]

StepOrder == <<"embed", "chroma", "llm", "tool", "workflow", "add_agent">>

StageOrder == <<"START", "ENSURE_READY", "RETRIEVE", "PROMPT_BUILD", "AGENT_INVOKE", "RETURN">>

\* C1: once a call of _setup_rag_system has failed, no later step calls a
\* constructor again and the pipeline never becomes ready: the failure is
\* permanent for the life of the process.
C1_FailedInitIsPermanent ==
    [][(\E p \in Procs : Failed(p)) => (calls' = calls /\ ~AllReady')]_vars

\* C1, what the code does: a call made after a failed one starts the
\* acquisition again from step 1.
C1_RetryReached ==
    \E p, q \in Procs : p # q /\ Failed(p) /\ steps[q] # <<>> /\ calls.embed >= 2

\* C2: once a call of _setup_rag_system has returned True, every later call
\* returns True without executing an acquisition step, no constructor is
\* called again and the five handles keep their values.
C2_IdempotentInit ==
    [][Succeeded =>
          /\ calls' = calls
          /\ globals' = globals
          /\ \A p \in Procs :
                setup_ret'[p] # setup_ret[p] => (setup_ret'[p] = "True" /\ steps'[p] = <<>>)]_vars

\* C2: two calls made after the successful one have both returned True at once.
C2_Witness ==
    \E p, q \in Reqs :
        /\ p # q
        /\ setup_ret[p] = "True" /\ steps[p] = <<>>
        /\ setup_ret[q] = "True" /\ steps[q] = <<>>
        /\ setup_ret[Startup] = "True" /\ steps[Startup] # <<>>

\* C3: however many callers call while the pipeline is not initialized, each
\* acquisition side effect (encoder load, index open, LLM client, tool,
\* workflow, add_agent) is executed at most once in the process.
C3_SingleInitAttempt ==
    \A k \in DOMAIN calls : calls[k] <= 1

\* C4: a request has run the retrieval tool or the agent workflow only if its
\* own call of _setup_rag_system returned True, and all five handles are set in
\* every state from the retrieval to the return.
C4_NeverAnswersUnready ==
    \A p \in Reqs :
        (pc[p] \in {"retrieve", "prompt", "invoke", "awaiting"}
            \/ Count(stages[p], "RETRIEVE") > 0
            \/ Count(stages[p], "AGENT_INVOKE") > 0)
        => (setup_ret[p] = "True" /\ AllReady)

\* C4: a request is waiting for the agent workflow it has invoked.
C4_Witness ==
    \E p \in Reqs : pc[p] = "awaiting" /\ Count(stages[p], "RETRIEVE") = 1 /\ AllReady

\* C5: no exception leaves run_faq_agent: every call ends by returning a string.
C5_AnswerNeverRaises ==
    \A p \in Reqs : pc[p] # "raised"

\* C6: a request whose encoder load raised has returned the fixed
\* initialization-failure message, which does not depend on the cause, has run
\* neither the retrieval nor the agent workflow, and has raised nothing.
C6_FailOpenInit ==
    \A p \in Reqs :
        (steps[p] # <<>> /\ steps[p][1] = [step |-> "embed", ok |-> FALSE])
        => /\ pc[p] = "done"
           /\ exc[p] = ""
           /\ ret[p] = "Backend RAG system failed to initialize. Please check server logs."
           /\ stages[p] = <<"START", "ENSURE_READY", "FAILED_RETURN">>
           /\ agent_result[p] = NoResult

\* C6: two requests whose encoder loads raised with different causes have
\* returned the same message.
C6_Witness ==
    \E p, q \in Reqs :
        /\ printed[p] = "Error loading embedding model: x"
        /\ printed[q] = "Error loading embedding model: y"
        /\ ret[p] = InitFailureMessage
        /\ ret[q] = ret[p]

\* C7: a request whose run of the agent workflow raised with text x has
\* returned exactly "An error occurred while processing your request: x", has
\* raised nothing and has invoked the workflow once.
C7_FailOpenOrchestration ==
    \A p \in Reqs :
        agent_result[p].kind = "error"
        => /\ pc[p] = "done"
           /\ exc[p] = ""
           /\ ret[p] = "An error occurred while processing your request: " \o agent_result[p].text
           /\ Count(stages[p], "AGENT_INVOKE") = 1

\* C7: the workflow raised with text "x" and the request returned the message for it.
C7_Witness ==
    \E p \in Reqs :
        /\ agent_result[p] = [kind |-> "error", text |-> "x"]
        /\ ret[p] = "An error occurred while processing your request: x"

\* C8: the steps an attempt has executed are an initial part of encoder,
\* index, LLM, tool, workflow, add_agent, and every step but the last executed
\* one succeeded: a step starts only after all earlier ones succeeded and no
\* step follows a failed one.
C8_StrictStepOrder ==
    \A p \in Procs :
        /\ IsPrefix(StepNames(p), StepOrder)
        /\ \A i \in DOMAIN steps[p] : i < Len(steps[p]) => steps[p][i].ok

\* C8: one attempt has gone through all steps and another has stopped at a
\* failed index step.
C8_Witness ==
    \E p, q \in Procs :
        /\ StepNames(p) = StepOrder
        /\ Len(steps[q]) = 2 /\ ~steps[q][2].ok /\ setup_ret[q] = "False"

\* The start of the line _setup_rag_system prints for a failed step.
StepTag(step) ==
    CASE step = "embed" -> "Error loading embedding model: "
      [] step = "chroma" -> "Error connecting to ChromaDB: "
      [] step = "llm" -> "Error initializing LLM: "
      [] OTHER -> "Error in step " \o step \o ": "

\* C9: an attempt whose last step failed has returned an error (it has not
\* raised) that names the failing step and the cause, for the tool and the
\* workflow steps as for the first three.
C9_FailureReturnsTaggedError ==
    \A p \in Procs :
        (steps[p] # <<>> /\ ~steps[p][Len(steps[p])].ok)
        => /\ setup_ret[p] = "False"
           /\ \E c \in Causes : printed[p] = StepTag(steps[p][Len(steps[p])].step) \o c

\* C10: the stages of a request are an initial part of START, ENSURE_READY,
\* RETRIEVE, PROMPT_BUILD, AGENT_INVOKE, RETURN, possibly ended by
\* FAILED_RETURN: no stage is repeated or out of order, the retrieval has been
\* done exactly once before the workflow is invoked, and the workflow is
\* invoked at most once.
C10_StageOrder ==
    \A p \in Reqs :
        /\ \/ IsPrefix(stages[p], StageOrder)
           \/ /\ stages[p] # <<>>
              /\ stages[p][Len(stages[p])] = "FAILED_RETURN"
              /\ IsPrefix(SubSeq(stages[p], 1, Len(stages[p]) - 1), StageOrder)
        /\ Count(stages[p], "AGENT_INVOKE") <= 1
        /\ Count(stages[p], "AGENT_INVOKE") = 1 => Count(stages[p], "RETRIEVE") = 1
        /\ Len(agent_input[p]) <= 1
        /\ pc[p] = "awaiting" => agent_input[p] = <<prompt_for_agent[p]>>

\* C10: one request has gone through all six stages and another has ended in
\* FAILED_RETURN after its agent invocation.
C10_Witness ==
    \E p, q \in Reqs :
        /\ stages[p] = StageOrder
        /\ stages[q] = <<"START", "ENSURE_READY", "RETRIEVE", "PROMPT_BUILD",
                         "AGENT_INVOKE", "FAILED_RETURN">>

\* The request has passed initialization and has not returned yet.
PastSetup(p) == pc[p] \in {"retrieve", "prompt", "invoke", "awaiting"}

\* C11: no step of a request that has passed initialization (the lookup, with
\* or without a diagnostic, the prompt, the workflow's run and its except
\* clause) changes a handle, nor the readiness derived from them.
C11_FailedRequestKeepsState ==
    [][\A p \in Reqs :
          (PastSetup(p) /\ pc'[p] # pc[p])
          => (globals' = globals /\ AllReady' = AllReady)]_allvars

\* C11: a request has failed in the workflow's run and the handles are all set.
C11_Witness ==
    \E p \in Reqs :
        /\ pc[p] = "done"
        /\ agent_result[p].kind = "error"
        /\ ret[p] = AgentErrorMessage(agent_result[p].text)
        /\ AllReady

\* C16: the workflow's input of a request in flight is one prompt, exactly
\* "Retrieved Company FAQ Information:\n" + C + "\n\nUser Question: " + Q for
\* the request's lookup result C and query Q, both as they were received.
C16_PromptTemplateExact ==
    \A p \in Reqs :
        /\ pc[p] \in {"invoke", "awaiting"}
           => /\ user_query[p] \in Queries
              /\ retrieved_info[p] \in RunResults
              /\ prompt_for_agent[p] =
                    "Retrieved Company FAQ Information:\n" \o retrieved_info[p]
                        \o "\n\nUser Question: " \o user_query[p]
        /\ pc[p] = "awaiting" => agent_input[p] = <<prompt_for_agent[p]>>
        /\ pc[p] # "awaiting" => agent_input[p] = <<>>

\* C16: the workflow runs on the prompt of the sentinel context and query "Q1".
C16_Witness ==
    \E p \in Reqs :
        /\ pc[p] = "awaiting"
        /\ agent_input[p] =
              <<"Retrieved Company FAQ Information:\nNo relevant information found in the FAQs.\n\nUser Question: Q1">>

\* What a request holds for itself.
Frame(q) ==
    <<user_query[q], retrieved_info[q], prompt_for_agent[q], agent_input[q],
      agent_result[q], ret[q], stages[q]>>

\* C17: a step of one request changes nothing another request holds; the
\* prompt a request hands to the workflow is made of its own query and its own
\* lookup result; the answer it returns is the workflow's answer to its own run.
C17_NoSharedRequestState ==
    [][\A p \in Reqs :
          pc'[p] # pc[p]
          => /\ \A q \in Reqs \ {p} : Frame(q)' = Frame(q)
             /\ pc'[p] = "awaiting"
                => agent_input'[p] = <<Prompt(retrieved_info[p], user_query[p])>>
             /\ (pc[p] = "awaiting" /\ agent_result'[p].kind = "answer")
                => ret'[p] = agent_result'[p].text]_allvars

\* C17: two requests with different queries were in flight together; the later
\* one has its answer while the earlier one still awaits the run on its prompt.
C17_Witness ==
    /\ pc[1] = "awaiting"
    /\ user_query[1] = "Q1"
    /\ agent_input[1] = <<Prompt(retrieved_info[1], "Q1")>>
    /\ pc[2] = "done"
    /\ user_query[2] = "Q2"
    /\ ret[2] = "A2"
    /\ agent_result[2] = [kind |-> "answer", text |-> "A2"]

\* The accessor main.py imports from agent.py (line 11), which agent.py does not
\* define: the status derived from the five handles, as the specification
\* gives it.
RagStatus ==
    IF AllReady THEN "ready"
    ELSE IF \E p \in Procs : Failed(p) THEN "failed"
    ELSE "uninitialized"

\* get_observability_data() of the agent module, its rag_system part.
get_observability_data == [rag_system |-> [status |-> RagStatus]]

C22_SuccessMeansAgentAdded ==
    Succeeded
    => agent_workflow.agents
          = <<[name |-> "FAQAgent", tool |-> faq_tool_instance.id, llm |-> llm]>>

\* C23: when all five handles are populated, the tool holds the encoder and
\* the collection the handles refer to.
C23_ToolBoundToCurrentHandles ==
    AllReady
    => /\ faq_tool_instance.embedding_model = embedding_model
       /\ faq_tool_instance.chroma_collection = chroma_collection

\* C23: all five handles are populated after two attempts that loaded an
\* encoder, the first of which also made a tool; the tool is the second one
\* and holds the second encoder.
C23_Witness ==
    /\ AllReady
    /\ calls.embed >= 2
    /\ embedding_model = faq_tool_instance.embedding_model
    /\ embedding_model >= 2
    /\ faq_tool_instance.id = 2

\* What _run returns when the lookup found nothing or failed.
LookupFailures ==
    {"Error processing query for FAQ lookup: x",
     "Error processing query for FAQ lookup: y",
     "Error retrieving information from FAQs: x",
     "Error retrieving information from FAQs: y",
     "No relevant information found in the FAQs."}

\* C24: the step after the lookup is the prompt, never a return; a request
\* whose lookup gave a diagnostic or the sentinel builds the prompt with that
\* string as context, passes it to the workflow, runs the workflow once, and
\* returns the workflow's answer, not the string.
C24_LookupFailureGoesOn ==
    [][\A p \in Reqs :
          pc'[p] # pc[p]
          => /\ pc[p] = "retrieve"
                => pc'[p] = "prompt" /\ ret'[p] = ret[p]
             /\ (pc[p] = "prompt" /\ retrieved_info[p] \in LookupFailures)
                => /\ pc'[p] = "invoke"
                   /\ prompt_for_agent'[p] =
                         "Retrieved Company FAQ Information:\n" \o retrieved_info[p]
                             \o "\n\nUser Question: " \o user_query[p]
             /\ (pc[p] = "invoke" /\ retrieved_info[p] \in LookupFailures)
                => /\ pc'[p] = "awaiting"
                   /\ agent_input'[p] = <<prompt_for_agent[p]>>
             /\ (pc[p] = "awaiting" /\ retrieved_info[p] \in LookupFailures)
                => /\ Count(stages'[p], "AGENT_INVOKE") = 1
                   /\ ret'[p] \notin LookupFailures
                   /\ agent_result'[p].kind = "answer"
                      => ret'[p] = agent_result'[p].text /\ ret'[p] \in Answers]_allvars

\* C24: the workflow runs on the prompt made of the encoder's diagnostic.
C24_Witness ==
    \E p \in Reqs :
        /\ pc[p] = "awaiting"
        /\ retrieved_info[p] = "Error processing query for FAQ lookup: x"
        /\ agent_input[p] =
              <<"Retrieved Company FAQ Information:\nError processing query for FAQ lookup: x\n\nUser Question: Q2">>

----------------------------------------------------------------------------
\* Properties of FAQTool._run (SpecTool)

\* The block the tool is to give for a neighbour with this text and metadata.
ExpectedBlock(doc, meta) ==
    "Question: " \o (IF meta.question = <<>> THEN "N/A" ELSE meta.question[1])
        \o "\nAnswer: " \o (IF meta.answer = <<>> THEN doc ELSE meta.answer[1])

\* The index query succeeded and gave no document.
ZeroDocuments ==
    /\ t_idx.kind = "ok"
    /\ (t_results.shape \in {"none", "nodocs"} \/ t_results.documents = <<>>)

\* C12: when the encoder raised, _run has returned the encode diagnostic with
\* the cause in it and has made no index query; when the index query raised,
\* _run has returned the retrieval diagnostic with the cause in it; in both
\* cases the call has ended by returning.
C12_LookupFailuresReturned ==
    /\ t_enc.kind = "error"
       => /\ t_pc = "returned"
          /\ t_ret = "Error processing query for FAQ lookup: " \o t_enc.text
          /\ t_n_results = <<>>
          /\ t_idx = NoResult
    /\ t_idx.kind = "error"
       => /\ t_pc = "returned"
          /\ t_ret = "Error retrieving information from FAQs: " \o t_idx.text
          /\ t_contexts = <<>>

\* C12: the encoder raised "x" and the diagnostic for it was returned.
C12_Witness ==
    /\ t_enc = [kind |-> "error", text |-> "x"]
    /\ t_ret = "Error processing query for FAQ lookup: x"
    /\ t_pc = "returned"

\* C13: every index query asks for exactly 3 neighbours, whatever the size of
\* the collection; the context holds one block per neighbour returned, in the
\* index's order, each made from the entry at that rank: at most 3 blocks and
\* at most as many as the collection has entries.
C13_TopKBound ==
    /\ Len(t_n_results) <= 1
    /\ \A i \in DOMAIN t_n_results : t_n_results[i] = 3
    /\ (t_pc = "returned" /\ t_idx.kind = "ok")
       => /\ Len(t_contexts) = Len(Neighbours(t_results).documents)
          /\ Len(t_contexts) <= 3
          /\ Len(t_contexts) <= Len(t_corpus)
          /\ \A i \in DOMAIN t_contexts :
                t_contexts[i] = ExpectedBlock(t_corpus[i].doc, t_corpus[i].meta)
          /\ t_contexts # <<>> => t_ret = Join(t_contexts)

\* C13: a collection of four entries gave three blocks.
C13_Witness ==
    /\ t_pc = "returned"
    /\ Len(t_corpus) = 4
    /\ Len(t_contexts) = 3
    /\ t_n_results = <<3>>

\* C14: _run has returned exactly the sentinel when the index gave no document
\* (no result, no documents list, or an empty first list), and in no other case.
C14_EmptyResultSentinel ==
    t_pc = "returned"
    => (t_ret = "No relevant information found in the FAQs." <=> ZeroDocuments)

\* C14: the index of an empty collection answered and the sentinel was returned.
C14_Witness ==
    /\ t_pc = "returned"
    /\ t_corpus = <<>>
    /\ t_results.shape = "ok"
    /\ t_ret = "No relevant information found in the FAQs."

\* C15: the block of each neighbour is "Question: q\nAnswer: a", q being the
\* metadata's question or "N/A", a the metadata's answer or the document text;
\* for metadata {} and text "D1" it is "Question: N/A\nAnswer: D1".
C15_MetadataFallback ==
    (t_pc = "returned" /\ t_idx.kind = "ok" /\ t_results.shape = "ok")
    => /\ DOMAIN t_contexts = DOMAIN t_results.documents
       /\ \A i \in DOMAIN t_contexts :
             /\ t_contexts[i] = ExpectedBlock(t_results.documents[i], t_results.metadatas[i])
             /\ (t_results.documents[i] = "D1"
                    /\ t_results.metadatas[i] = [question |-> <<>>, answer |-> <<>>])
                => t_contexts[i] = "Question: N/A\nAnswer: D1"

\* C15: a neighbour with metadata {} and text "D1" was formatted, next to one
\* with both keys.
C15_Witness ==
    /\ t_pc = "returned"
    /\ Len(t_contexts) >= 2
    /\ t_contexts[1] = "Question: N/A\nAnswer: D1"
    /\ t_contexts[2] = "Question: q2\nAnswer: a2"

----------------------------------------------------------------------------
\* Properties of GeminiFlashAgent.process_message (SpecDemo)

\* Calls of process_message begun so far.
Started == Cardinality({m \in Msgs : pm_pc[m] # "idle"})

\* C18: request_count never decreases; it grows by exactly one at the start of
\* each call, whatever becomes of the call, and by nothing else; the
\* total_requests of get_observability_data is the number of calls begun.
C18_CounterMonotonic ==
    /\ [](ObservabilityData.total_requests = Started)
    /\ [][/\ request_count' >= request_count
          /\ \A m \in Msgs :
                (pm_pc[m] = "idle" /\ pm_pc'[m] # "idle")
                => request_count' = request_count + 1
          /\ (\A m \in Msgs : pm_pc'[m] = "idle" <=> pm_pc[m] = "idle")
             => request_count' = request_count]_allvars

\* C18: of two calls one has failed and one has succeeded, and two are counted.
C18_Witness ==
    /\ pm_pc[1] = "done"
    /\ pm_ret[1] = "I apologize, but I encountered an error: a bytes-like object is required, not 'str'"
    /\ pm_pc[2] = "done"
    /\ pm_ret[2] = Reply("hello")
    /\ ObservabilityData.total_requests = 2

\* How a call on this message ends on an agent without tracer.
UntracedOutcome(msg) ==
    IF msg.type = "NoneType" THEN [pc |-> "raised", ret |-> "", exc |-> SliceError]
    ELSE IF msg.type = "str" THEN [pc |-> "done", ret |-> Reply(msg.text), exc |-> NoError]
    ELSE [pc |-> "done", ret |-> Apology(LowerError.text), exc |-> NoError]

\* C19: on an agent with a tracer, a call that has ended has ended as it would
\* have without tracing, whether or not the tracer's operations raised: the
\* same string returned, and no exception of the tracer's to the caller.
C19_TracingFailsOpen ==
    \A m \in Msgs :
        (tracer # "none" /\ pm_pc[m] \in {"done", "raised"})
        => [pc |-> pm_pc[m], ret |-> pm_ret[m], exc |-> pm_exc[m]]
              = UntracedOutcome(message[m])

\* The span of call m carries the success attributes of its reply.
SuccessSet(m) ==
    /\ span[m].attrs["llm.response"] = <<Reply(message[m].text)>>
    /\ span[m].attrs["llm.status"] = <<"success">>
    /\ span[m].attrs["llm.response_length"] = <<Len(Reply(message[m].text))>>

\* The span of call m carries no success attribute.
NoSuccess(m) ==
    /\ span[m].attrs["llm.response"] = <<>>
    /\ span[m].attrs["llm.status"] # <<"success">>
    /\ span[m].attrs["llm.response_length"] = <<>>

\* The span of call m carries the failure attributes of the exception raised.
FailureSet(m) ==
    /\ span[m].attrs["llm.status"] = <<"error">>
    /\ span[m].attrs["error.message"] = <<"a bytes-like object is required, not 'str'">>
    /\ span[m].attrs["error.type"] = <<"TypeError">>

\* The span of call m carries no failure attribute.
NoFailure(m) ==
    /\ span[m].attrs["llm.status"] # <<"error">>
    /\ span[m].attrs["error.message"] = <<>>
    /\ span[m].attrs["error.type"] = <<>>

\* C20: with a tracer whose operations go through, a call that has returned
\* has a completed span, and a completed span carries the success attributes
\* and no failure attribute when _generate_response returned, the failure
\* attributes and no success attribute when it raised; a span still open
\* carries neither.
C20_OneOutcomeSet ==
    tracer = "ok"
    => \A m \in Msgs :
          /\ pm_pc[m] = "done" <=> span[m].state = "ended"
          /\ pm_pc[m] = "awaiting" <=> span[m].state = "open"
          /\ span[m].state = "ended"
             => IF message[m].type = "str"
                THEN SuccessSet(m) /\ NoFailure(m)
                ELSE FailureSet(m) /\ NoSuccess(m)
          /\ span[m].state = "open" => NoSuccess(m) /\ NoFailure(m)

\* C20: one span completed with the success attributes of the reply to
\* "ping", another with the failure attributes.
C20_Witness ==
    /\ tracer = "ok"
    /\ span[1].state = "ended"
    /\ span[1].attrs["llm.status"] = <<"success">>
    /\ span[1].attrs["llm.response_length"] = <<105>>
    /\ span[1].attrs["error.type"] = <<>>
    /\ span[2].state = "ended"
    /\ span[2].attrs["llm.status"] = <<"error">>
    /\ span[2].attrs["error.type"] = <<"TypeError">>
    /\ span[2].attrs["llm.response"] = <<>>

\* The entries of conversation_history appended by call m: calls begin in the
\* order of their numbers and line 129 counts each, so call m has request_id m.
OwnEntries(m) ==
    {i \in DOMAIN conversation_history : conversation_history[i].request_id = m}

\* C25: without a tracer or with one whose operations go through, a call that
\* has returned has an entry of its own request_id, and that entry holds the
\* call's outcome: status success and the response it returned, or status
\* error and the text of the exception.
C25_OutcomeInOwnEntry ==
    \A m \in Msgs :
        (tracer # "faulty" /\ pm_pc[m] = "done")
        => \E i \in OwnEntries(m) :
              \/ /\ conversation_history[i].status = "success"
                 /\ conversation_history[i].agent_response = <<pm_ret[m]>>
                 /\ conversation_history[i].error = <<>>
              \/ /\ conversation_history[i].status = "error"
                 /\ pm_ret[m] = "I apologize, but I encountered an error: "
                                   \o conversation_history[i].error[1]
                 /\ conversation_history[i].agent_response = <<>>

C27_GenerationFailureReturned ==
    \A m \in Msgs :
        (tracer # "faulty" /\ message[m].type = "bytes" /\ pm_pc[m] \in {"done", "raised"})
        => /\ pm_pc[m] = "done"
           /\ pm_ret[m] = "I apologize, but I encountered an error: a bytes-like object is required, not 'str'"
           /\ \E i \in OwnEntries(m) :
                 /\ conversation_history[i].status = "error"
                 /\ conversation_history[i].error = <<"a bytes-like object is required, not 'str'">>

=============================================================================
